---- MODULE Spec2Model ----
(***************************************************************************)
(* Model of the hackathon portal (src/app.py): a Flask application over a  *)
(* SQLite database reached through SQLAlchemy sessions.                    *)
(*                                                                         *)
(* Each client has a session cookie and at most one request in flight.     *)
(* Requests of different clients are served by different threads, so the   *)
(* handlers that read the database and write it later (register, submit,   *)
(* seed_sponsors) are modelled step by step: one action per database round *)
(* trip.  A SELECT sees the committed rows only; the first INSERT of a     *)
(* session takes SQLite's write lock, which the session holds up to its    *)
(* COMMIT or ROLLBACK.                                                     *)
(***************************************************************************)
EXTENDS Integers, Sequences, FiniteSets, TLC

\* ------------------------------------------------------------------ bounds
NClients == 2
MaxFeedback == 3
MaxUpdates == 2
MaxNotifications == 1

\* --------------------------------------------------------------- constants
InviteLen == 6

chars ==
    << "A", "B", "C", "D", "E", "F", "G", "H", "I", "J", "K", "L", "M",
       "N", "O", "P", "Q", "R", "S", "T", "U", "V", "W", "X", "Y", "Z",
       "0", "1", "2", "3", "4", "5", "6", "7", "8", "9" >>

Clients == 1..NClients

\* The addresses registrants type.
Emails == {"ada@x.com", "bob@x.com"}

\* What random.choice(chars), called six times, may return: a sequence of six
\* indexes into chars.  The model draws from two of them, "ABCDEF" and "987654".
RandomDraws ==
    {[i \in 1..InviteLen |-> i], [i \in 1..InviteLen |-> Len(chars) + 1 - i]}

generate_invite_code(r) == [i \in 1..InviteLen |-> chars[r[i]]]

\* What a registrant may type into the inviteCode field: any code the
\* generator can produce, or a string that is no code at all.
InviteInputs ==
    {generate_invite_code(r) : r \in RandomDraws} \cup {<< "N", "O" >>}

generate_password_hash(p) == << "hash", p >>

check_password_hash(h, p) == h = generate_password_hash(p)

VARIABLES
    users,          \* User rows (committed)
    teams,          \* Team rows (committed)
    submissions,    \* Submission rows (committed)
    feedbacks,      \* Feedback rows (committed)
    sponsors,       \* Sponsor rows (committed)
    live_updates,   \* LiveUpdate rows (committed)
    notifications,  \* Notification rows (committed)
    wlock,          \* the client whose session holds the write lock, or 0
    session,        \* session[c]: the cookie of client c
    pc,             \* pc[c]: where the request of client c stands
    req,            \* req[c]: the form and the locals of that request
    resp            \* the response the latest step sent, NoResp if it sent none

vars ==
    << users, teams, submissions, feedbacks, sponsors, live_updates,
       notifications, wlock, session, pc, req, resp >>

\* The tables registration never touches.
content == << submissions, feedbacks, sponsors, live_updates, notifications >>

\* The tables of participants and teams, and the write lock.
people == << users, teams, wlock >>

NoReq == [route |-> "none"]

NoError == << >>

NoResp ==
    [client |-> 0, code |-> 0, location |-> "", flash |-> "", body |-> << >>,
     error |-> NoError]

\* redirect(url_for(to)) after flash(msg)
redirect(to, msg) ==
    [client |-> 0, code |-> 302, location |-> to, flash |-> msg, body |-> << >>, error |-> NoError]

\* render_template(page, rows)
render(page, rows) ==
    [client |-> 0, code |-> 200, location |-> page, flash |-> "", body |-> rows, error |-> NoError]

\* An exception leaves the handler and Flask answers 500.  The exception names
\* the constraint that failed and the team_id parameter of the statement.
IntegrityError(column, team_id) == << "IntegrityError", column, team_id >>

OperationalError == << "OperationalError", "database is locked", 0 >>

server_error(e) ==
    [client |-> 0, code |-> 500, location |-> "", flash |-> "", body |-> << >>, error |-> e]

\* get_or_404 finds no row and Flask answers 404.
not_found ==
    [client |-> 0, code |-> 404, location |-> "", flash |-> "", body |-> << >>, error |-> NoError]

Max(S) == CHOOSE x \in S : \A y \in S : y <= x

\* INTEGER PRIMARY KEY of SQLite: the largest rowid of the table plus one.
NextId(table) == IF table = {} THEN 1 ELSE Max({r.id : r \in table}) + 1

\* unique=True of User.email and of Team.invite_code: the INSERT is refused
\* when a committed row holds the value.
UserEmailNotUnique(email) == TRUE

UserEmailFree(email) == \A u \in users : u.email # email

TeamCodeNotUnique(code) == TRUE

TeamCodeFree(code) == \A tm \in teams : tm.invite_code # code

NoSession == [user_id |-> 0, is_admin |-> FALSE]

\* The tables db.create_all() leaves, and no request yet.
Init ==
    /\ users = {}
    /\ teams = {}
    /\ submissions = {}
    /\ feedbacks = {}
    /\ sponsors = {}
    /\ live_updates = {}
    /\ notifications = {}
    /\ wlock = 0
    /\ session = [c \in Clients |-> NoSession]
    /\ pc = [c \in Clients |-> "idle"]
    /\ req = [c \in Clients |-> NoReq]
    /\ resp = NoResp

\* The request of client c ends with response r.
Finish(c, r) ==
    /\ pc' = [pc EXCEPT ![c] = "idle"]
    /\ req' = [req EXCEPT ![c] = NoReq]
    /\ resp' = [r EXCEPT !.client = c]

Goto(c, label, locals) ==
    /\ pc' = [pc EXCEPT ![c] = label]
    /\ req' = [req EXCEPT ![c] = locals]
    /\ resp' = NoResp

\* A request of client c arrives: the handler starts with the form read.
Receive(c, label, form) ==
    /\ pc[c] = "idle"
    /\ pc' = [pc EXCEPT ![c] = label]
    /\ req' = [req EXCEPT ![c] = form]
    /\ resp' = NoResp

\* This step is one of the request of client c.
StepOf(c) == pc'[c] # pc[c] \/ req'[c] # req[c]

\* ---------------------------------------------------------------- register
RegisterForms ==
    {[route |-> "register", email |-> e, password |-> "pw", teamChoice |-> ch,
      inviteCode |-> ic, code |-> << >>, team_id |-> 0, flushed |-> FALSE] :
        e \in Emails, ch \in {"create", "join", "solo"}, ic \in InviteInputs}

\* POST /register arrives: the form is read.
post_register(c) ==
    /\ \E f \in RegisterForms :
        /\ f.teamChoice # "join" => f.inviteCode = << "N", "O" >>
        /\ Receive(c, "register", f)
    /\ UNCHANGED << users, teams, wlock, session, content >>

\* if User.query.filter_by(email=email).first(): redirect to login.  Else
\* the User object is built and the team choice decides what comes next:
\* "create" draws the first code, "join" goes on to look the team up, any
\* other choice goes straight to the commit.
register_check_email(c) ==
    /\ pc[c] = "register"
    /\ IF \E u \in users : u.email = req[c].email
       THEN Finish(c, redirect("login", "Email already registered. Please login."))
       ELSE IF req[c].teamChoice = "create"
       THEN \E r \in RandomDraws :
               Goto(c, "reg_loop", [req[c] EXCEPT !.code = generate_invite_code(r)])
       ELSE IF req[c].teamChoice = "join"
       THEN Goto(c, "reg_join", req[c])
       ELSE Goto(c, "reg_commit", req[c])
    /\ UNCHANGED << users, teams, wlock, session, content >>

\* while Team.query.filter_by(invite_code=code).first(): draw again
register_loop(c) ==
    /\ pc[c] = "reg_loop"
    /\ IF \E tm \in teams : tm.invite_code = req[c].code
       THEN \E r \in RandomDraws :
               Goto(c, "reg_loop", [req[c] EXCEPT !.code = generate_invite_code(r)])
       ELSE Goto(c, "reg_flush", req[c])
    /\ UNCHANGED << users, teams, wlock, session, content >>

\* db.session.add(new_team); db.session.flush(): the INSERT runs inside a
\* transaction that stays open; user.team_id = new_team.id
register_flush(c) ==
    /\ pc[c] = "reg_flush"
    /\ wlock = 0
    /\ IF TeamCodeFree(req[c].code)
       THEN /\ wlock' = c
            /\ Goto(c, "reg_commit",
                    [req[c] EXCEPT !.team_id = NextId(teams), !.flushed = TRUE])
       ELSE /\ wlock' = 0
            /\ Finish(c, server_error(IntegrityError("team.invite_code", 0)))
    /\ UNCHANGED << users, teams, session, content >>

AnyTeam(code) == teams

\* Team.query.filter_by(invite_code=invite_code)
TeamsByInviteCode(code) == {tm \in teams : tm.invite_code = code}

\* team_choice == "join": the team of the invite code, or back to the form
register_join(c) ==
    /\ pc[c] = "reg_join"
    /\ LET found == TeamsByInviteCode(req[c].inviteCode)
       IN IF found = {}
          THEN Finish(c, redirect("register", "Invalid invite code!"))
          ELSE \E tm \in found :
                  Goto(c, "reg_commit", [req[c] EXCEPT !.team_id = tm.id])
    /\ UNCHANGED << users, teams, wlock, session, content >>

TeamsKeptAfterRollback(c) ==
    IF req[c].flushed
    THEN teams \cup {[id |-> req[c].team_id, invite_code |-> req[c].code]}
    ELSE teams

\* The rows of Team once the transaction of client c is rolled back: the
\* flushed team is gone with it.
TeamsAfterRollback(c) == teams

\* The rows of Team once the transaction of client c is committed.
TeamsAfterCommit(c) ==
    IF req[c].flushed
    THEN teams \cup {[id |-> req[c].team_id, invite_code |-> req[c].code]}
    ELSE teams

\* db.session.add(user); db.session.commit(): INSERT of the user and COMMIT,
\* or the IntegrityError of the email and the rollback of the session.
register_commit(c) ==
    /\ pc[c] = "reg_commit"
    /\ wlock \in {0, c}
    /\ IF UserEmailFree(req[c].email)
       THEN /\ users' = users \cup
                   {[id |-> NextId(users), email |-> req[c].email,
                     password_hash |-> generate_password_hash(req[c].password),
                     team_id |-> req[c].team_id]}
            /\ teams' = TeamsAfterCommit(c)
            /\ Finish(c, redirect("login", "Registration successful. Please login."))
       ELSE /\ users' = users
            /\ teams' = TeamsAfterRollback(c)
            /\ Finish(c, server_error(IntegrityError("user.email", req[c].team_id)))
    /\ wlock' = 0
    /\ UNCHANGED << session, content >>

\* A write that finds the database locked by another session up to the busy
\* timeout: OperationalError, the handler ends in an error.
storage_busy(c) ==
    /\ pc[c] \in {"reg_flush", "reg_commit", "sub_commit", "seed_commit"}
    /\ wlock \notin {0, c}
    /\ Finish(c, server_error(OperationalError))
    /\ UNCHANGED << users, teams, wlock, session, content >>

NextRegister ==
    \E c \in Clients :
        \/ post_register(c)
        \/ register_check_email(c)
        \/ register_loop(c)
        \/ register_flush(c)
        \/ register_join(c)
        \/ register_commit(c)
        \/ storage_busy(c)

SpecRegister == Init /\ [][NextRegister]_vars

\* Every thread that serves a request keeps running: each step of a handler
\* that can be taken is taken in the end.  Nothing makes a client send a request.
HandlerRegister(c) ==
    \/ register_check_email(c)
    \/ register_loop(c)
    \/ register_flush(c)
    \/ register_join(c)
    \/ register_commit(c)
    \/ storage_busy(c)

FairRegister == SpecRegister /\ \A c \in Clients : WF_vars(HandlerRegister(c))

\* ------------------------------------------------------- register: claims
RegisterPcs == {"register", "reg_loop", "reg_flush", "reg_join", "reg_commit"}

\* Client c is in POST /register and this step ends the request.
RegisterEnds(c) == pc[c] \in RegisterPcs /\ pc'[c] = "idle"

EmailsUnique == \A u1, u2 \in users : u1.email = u2.email => u1 = u2

C1_Step ==
    \A c \in Clients :
        /\ (pc[c] \in RegisterPcs /\ StepOf(c)
               /\ \E u \in users : u.email = req[c].email)
              => users' = users /\ teams' = teams
        /\ (pc[c] = "register" /\ pc'[c] # pc[c]
               /\ \E u \in users : u.email = req[c].email)
              => /\ pc'[c] = "idle"
                 /\ resp' = [redirect("login", "Email already registered. Please login.")
                               EXCEPT !.client = c]

\* C1: no two User rows ever hold the same email.  A POST /register whose
\* email a committed row already holds adds no User row and no Team row, and
\* when the handler's own check finds the row it redirects to login; a
\* registration that passed the check before another one committed the same
\* email adds no row either.
C1_UniqueEmail == []EmailsUnique /\ [][C1_Step]_vars

\* Two registrations of one email interleaved and the unique constraint
\* refused the second INSERT.
C1_Witness ==
    /\ resp.code = 500
    /\ resp.error[1] = "IntegrityError"
    /\ resp.error[2] = "user.email"
    /\ \E u \in users : u.email \in Emails

AlphaNum ==
    {"A", "B", "C", "D", "E", "F", "G", "H", "I", "J", "K", "L", "M", "N", "O",
     "P", "Q", "R", "S", "T", "U", "V", "W", "X", "Y", "Z", "0", "1", "2", "3",
     "4", "5", "6", "7", "8", "9"}

\* C2: every Team's invite code is 6 characters of A-Z and 0-9, and no two
\* Team rows hold the same code, however create-path registrations interleave.
C2_InviteCodes ==
    /\ \A tm \in teams :
          /\ Len(tm.invite_code) = 6
          /\ \A i \in 1..Len(tm.invite_code) : tm.invite_code[i] \in AlphaNum
    /\ \A t1, t2 \in teams : t1.invite_code = t2.invite_code => t1 = t2

\* Two create-path registrations drew the same code, both passed the loop,
\* and the unique constraint refused the second INSERT.
C2_Witness ==
    /\ resp.code = 500
    /\ resp.error[1] = "IntegrityError"
    /\ resp.error[2] = "team.invite_code"
    /\ teams # {}

TeamsHaveMembers == \A tm \in teams : \E u \in users : u.team_id = tm.id

C4_Step ==
    \A c \in Clients :
        (RegisterEnds(c) /\ req[c].teamChoice = "create")
          => \/ users' = users /\ teams' = teams
             \/ \E tm \in teams' \ teams : \E u \in users' \ users :
                   /\ u.team_id = tm.id
                   /\ u.email = req[c].email
                   /\ teams' = teams \cup {tm}
                   /\ users' = users \cup {u}

\* C4: a create-path registration that has ended has stored both its Team row
\* and its User row, linked, or neither; so every stored team has a stored
\* user that points to it.
C4_CreateAtomic == []TeamsHaveMembers /\ [][C4_Step]_vars

\* A create-path registration flushed its team, then its user INSERT failed
\* on the email: the answer is the error, and no team has the flushed id.
C4_Witness ==
    /\ resp.code = 500
    /\ resp.error[1] = "IntegrityError"
    /\ resp.error[2] = "user.email"
    /\ resp.error[3] # 0
    /\ \A tm \in teams : tm.id # resp.error[3]

Members(table, team_id) == {u \in table : u.team_id = team_id}

C7_Step ==
    \A c \in Clients :
        /\ (pc[c] = "reg_join" /\ pc'[c] # pc[c])
              => /\ users' = users /\ teams' = teams
                 /\ IF \A tm \in teams : tm.invite_code # req[c].inviteCode
                    THEN /\ pc'[c] = "idle"
                         /\ resp' = [redirect("register", "Invalid invite code!")
                                       EXCEPT !.client = c]
                    ELSE /\ pc'[c] = "reg_commit"
                         /\ \E tm \in teams :
                               /\ tm.invite_code = req[c].inviteCode
                               /\ req'[c].team_id = tm.id
        /\ (pc[c] = "reg_commit" /\ req[c].teamChoice = "join" /\ pc'[c] # pc[c])
              => /\ teams' = teams
                 /\ IF wlock \in {0, c} /\ \A u \in users : u.email # req[c].email
                    THEN /\ \E u \in users' \ users :
                               /\ users' = users \cup {u}
                               /\ u.email = req[c].email
                               /\ u.team_id = req[c].team_id
                         /\ Cardinality(Members(users', req[c].team_id))
                              = Cardinality(Members(users, req[c].team_id)) + 1
                         /\ resp'.code = 302 /\ resp'.location = "login"
                    ELSE users' = users /\ resp'.code = 500

\* C7: a join registration whose invite code matches no team stores no User and
\* no Team and redirects to the registration form; one whose code matches stores
\* no Team, and when its commit goes through it stores exactly one User, whose
\* team is the matched team, which gains exactly one member.
C7_Join == [][C7_Step]_vars

\* A second registrant joined a team by its invite code: the team has two
\* members.
C7_Witness ==
    \E tm \in teams : Cardinality(Members(users, tm.id)) = 2

\* C10: every create-path registration that enters the retry loop ends.
C10_LoopEnds ==
    \A c \in Clients : (pc[c] = "reg_loop") ~> (pc[c] = "idle")

\* ------------------------------------------------------ login and logout
\* The portal once ada has registered with a new team and bob has joined it
\* (User and Team rows that SpecRegister reaches, with no request in flight),
\* nobody logged in, with rows as the Sponsor table.
Portal(rows) ==
    /\ users =
         {[id |-> 1, email |-> "ada@x.com",
           password_hash |-> generate_password_hash("pw"), team_id |-> 1],
          [id |-> 2, email |-> "bob@x.com",
           password_hash |-> generate_password_hash("pw"), team_id |-> 1]}
    /\ teams =
         {[id |-> 1, invite_code |-> generate_invite_code([i \in 1..InviteLen |-> i])]}
    /\ submissions = {}
    /\ feedbacks = {}
    /\ sponsors = rows
    /\ live_updates = {}
    /\ notifications = {}
    /\ wlock = 0
    /\ session = [c \in Clients |-> NoSession]
    /\ pc = [c \in Clients |-> "idle"]
    /\ req = [c \in Clients |-> NoReq]
    /\ resp = NoResp

InitPortal == Portal({})

NoUser == [id |-> 0]

\* User.query.get(session["user_id"]) if "user_id" in session, else None
get_current_user(c) ==
    IF session[c].user_id # 0 /\ \E u \in users : u.id = session[c].user_id
    THEN CHOOSE u \in users : u.id = session[c].user_id
    ELSE NoUser

LoginForms ==
    {[route |-> "login", email |-> e, password |-> p] :
        e \in Emails, p \in {"pw", "letmein"}}

\* POST /login arrives.
post_login(c) ==
    /\ \E f \in LoginForms : Receive(c, "login", f)
    /\ UNCHANGED << people, session, content >>

\* user = User.query.filter_by(email=email).first(); the password is checked
\* and session["user_id"] is set, or the form is shown again.
login(c) ==
    /\ pc[c] = "login"
    /\ LET found == {u \in users : u.email = req[c].email}
       IN IF \E u \in found : check_password_hash(u.password_hash, req[c].password)
          THEN \E u \in found :
                  /\ session' = [session EXCEPT ![c].user_id = u.id]
                  /\ Finish(c, redirect("dashboard", "Logged in successfully!"))
          ELSE /\ session' = session
               /\ Finish(c, [render("login.html", << >>)
                               EXCEPT !.flash = "Invalid email or password."])
    /\ UNCHANGED << people, content >>

\* GET /logout, which reads no input and is one step from its arrival to its
\* response.  session.clear(): the user id and the admin flag both go.
logout(c) ==
    /\ pc[c] = "idle"
    /\ session' = [session EXCEPT ![c] = NoSession]
    /\ Finish(c, redirect("home", "Logged out."))
    /\ UNCHANGED << people, content >>

\* ------------------------------------------------------------------ submit
SubmitForms ==
    {[route |-> "submit", title |-> "Robot", desc |-> "It walks",
      github |-> "github.com/r", video |-> "video.com/r", user_id |-> 0, sub_id |-> 0],
     [route |-> "submit", title |-> "Rocket", desc |-> "It flies",
      github |-> "github.com/k", video |-> "video.com/k", user_id |-> 0, sub_id |-> 0]}

\* POST /submit arrives.
post_submit(c) ==
    /\ \E f \in SubmitForms : Receive(c, "submit", f)
    /\ UNCHANGED << people, session, content >>

\* user = get_current_user(), or the redirect to login; then
\* sub = Submission.query.filter_by(user_id=user.id).first(), which is None or
\* a row of the user (the query has no ORDER BY).
submit_lookup(c) ==
    /\ pc[c] = "submit"
    /\ LET user == get_current_user(c)
           mine == {sb \in submissions : sb.user_id = user.id}
       IN IF user = NoUser
          THEN Finish(c, redirect("login", "Please login to submit."))
          ELSE IF mine = {}
          THEN Goto(c, "sub_commit", [req[c] EXCEPT !.user_id = user.id])
          ELSE \E sb \in mine :
                  Goto(c, "sub_commit",
                       [req[c] EXCEPT !.user_id = user.id, !.sub_id = sb.id])
    /\ UNCHANGED << people, session, content >>

\* The fields the form sets on the row.
SubmissionRow(id, f) ==
    [id |-> id, title |-> f.title, description |-> f.desc, github |-> f.github,
     video |-> f.video, user_id |-> f.user_id]

\* if not sub: db.session.add(Submission(...)) else: the four fields of sub
\* are overwritten; db.session.commit()
submit_commit(c) ==
    /\ pc[c] = "sub_commit"
    /\ wlock = 0
    /\ submissions' =
         IF req[c].sub_id = 0
         THEN submissions \cup {SubmissionRow(NextId(submissions), req[c])}
         ELSE {IF sb.id = req[c].sub_id THEN SubmissionRow(sb.id, req[c]) ELSE sb :
                 sb \in submissions}
    /\ Finish(c, redirect("dashboard", "Submission saved!"))
    /\ UNCHANGED << people, session, feedbacks, sponsors, live_updates, notifications >>

NextSubmit ==
    \E c \in Clients :
        \/ post_login(c)
        \/ login(c)
        \/ logout(c)
        \/ post_submit(c)
        \/ submit_lookup(c)
        \/ submit_commit(c)

SpecSubmit == InitPortal /\ [][NextSubmit]_vars

\* Client c is in one of these handlers and the step is one of its request.
Handles(c, labels) == pc[c] \in labels /\ StepOf(c)

\* C3: each user owns at most one Submission row.
C3_OneSubmissionPerUser ==
    \A u \in users : Cardinality({sb \in submissions : sb.user_id = u.id}) <= 1

\* ---------------------------------------------------------------- feedback
FeedbackForms == {[route |-> "feedback", text |-> "Great event", rating |-> "5"]}

\* POST /feedback arrives.
post_feedback(c) ==
    /\ Cardinality(feedbacks) + Cardinality({d \in Clients : pc[d] = "feedback_post"})
         < MaxFeedback
    /\ \E f \in FeedbackForms : Receive(c, "feedback_post", f)
    /\ UNCHANGED << people, session, content >>

\* POST: the redirect to login without a user, else
\* db.session.add(Feedback(text, rating, user_id)); db.session.commit()
feedback_post(c) ==
    /\ pc[c] = "feedback_post"
    /\ LET user == get_current_user(c)
       IN IF user = NoUser
          THEN /\ feedbacks' = feedbacks
               /\ Finish(c, redirect("login", "Login required to give feedback."))
          ELSE /\ feedbacks' = feedbacks \cup
                      {[id |-> NextId(feedbacks), text |-> req[c].text,
                        rating |-> req[c].rating, user_id |-> user.id]}
               /\ Finish(c, redirect("feedback", "Thank you for your feedback!"))
    /\ UNCHANGED << people, session, submissions, sponsors, live_updates, notifications >>

RECURSIVE order_by_id_asc(_)
\* .order_by(Model.id.asc()).all()
order_by_id_asc(rows) ==
    IF rows = {}
    THEN << >>
    ELSE LET first == CHOOSE r \in rows : \A q \in rows : r.id <= q.id
         IN << first >> \o order_by_id_asc(rows \ {first})

RECURSIVE order_by_id_desc(_)
\* .order_by(Model.id.desc()).all()
order_by_id_desc(rows) ==
    IF rows = {}
    THEN << >>
    ELSE LET first == CHOOSE r \in rows : \A q \in rows : r.id >= q.id
         IN << first >> \o order_by_id_desc(rows \ {first})

AllFeedbacks(c) ==
    IF get_current_user(c) = NoUser THEN << >> ELSE order_by_id_desc(feedbacks)

\* Feedback.query.filter_by(user_id=user.id).order_by(Feedback.id.desc()).all()
\* for a logged-in user, else the empty list
UserFeedbacks(c) ==
    LET user == get_current_user(c)
    IN IF user = NoUser
       THEN << >>
       ELSE order_by_id_desc({fb \in feedbacks : fb.user_id = user.id})

\* GET /feedback, one step: render_template("feedback.html", feedbacks=feedbacks)
feedback_get(c) ==
    /\ pc[c] = "idle"
    /\ Finish(c, render("feedback.html", UserFeedbacks(c)))
    /\ UNCHANGED << people, session, content >>

NextFeedback ==
    \E c \in Clients :
        \/ post_login(c)
        \/ login(c)
        \/ logout(c)
        \/ post_feedback(c)
        \/ feedback_post(c)
        \/ feedback_get(c)

SpecFeedback == InitPortal /\ [][NextFeedback]_vars

C9_Step ==
    /\ feedbacks \subseteq feedbacks'
    /\ \A c \in Clients :
        /\ Handles(c, {"feedback_post"}) =>
             IF session[c].user_id = 0
             THEN /\ feedbacks' = feedbacks
                  /\ resp'.client = c /\ resp'.code = 302 /\ resp'.location = "login"
             ELSE \E fb \in feedbacks' \ feedbacks :
                    /\ feedbacks' = feedbacks \cup {fb}
                    /\ Cardinality(feedbacks') = Cardinality(feedbacks) + 1
                    /\ fb.user_id = session[c].user_id
                    /\ fb.text = req[c].text
                    /\ fb.rating = req[c].rating
        /\ (resp'.client = c /\ resp'.location = "feedback.html") =>
             LET listed == resp'.body
                 mine == {fb \in feedbacks : fb.user_id = session[c].user_id}
             IN /\ resp'.code = 200
                /\ {listed[i] : i \in 1..Len(listed)} = mine
                /\ Len(listed) = Cardinality(mine)
                /\ \A i \in 1..Len(listed) - 1 : listed[i].id > listed[i + 1].id

\* C9: no step changes or removes a Feedback row.  A POST /feedback of a
\* logged-in user adds exactly one row, of that user, with the text and the
\* rating of the form; without a user it adds none and redirects to login.
\* The list GET /feedback shows holds exactly the rows of the user, each once,
\* the larger id first.
C9_FeedbackAppendOnly == [][C9_Step]_vars

\* A user is shown two feedback rows of theirs while another user's row is
\* stored too.
C9_Witness ==
    /\ resp.code = 200
    /\ resp.location = "feedback.html"
    /\ Len(resp.body) = 2
    /\ \E fb \in feedbacks : fb.user_id # resp.body[1].user_id

\* ---------------------------------------------------------------- sponsors
InitSponsors ==
    \E rows \in {{}, {[id |-> 1, name |-> "Omega Labs", tier |-> "Gold",
                      link |-> "https://example.org"]}} : Portal(rows)

\* The sponsors list of seed_sponsors.
DefaultSponsors ==
    << [name |-> "Alpha Tech Solutions", tier |-> "Gold", link |-> "https://example.com"],
       [name |-> "Beta Cloud Services", tier |-> "Silver", link |-> "https://example.com"],
       [name |-> "CodeCraft Academy", tier |-> "Bronze", link |-> "https://example.com"] >>

\* if Sponsor.query.count() == 0
SponsorsEmpty == Cardinality(sponsors) = 0

\* db.session.add_all(sponsors): the default rows with the next ids
SeededSponsors ==
    sponsors \cup
      {[id |-> NextId(sponsors) + i - 1, name |-> DefaultSponsors[i].name,
        tier |-> DefaultSponsors[i].tier, link |-> DefaultSponsors[i].link] :
          i \in 1..Len(DefaultSponsors)}

\* GET /dashboard up to the check of seed_sponsors: the redirect to login
\* without a user; the page if the table has rows; else on to the insert.
dashboard(c) ==
    /\ pc[c] = "idle"
    /\ IF get_current_user(c) = NoUser
       THEN Finish(c, redirect("login", "Please login to access dashboard."))
       ELSE IF SponsorsEmpty
       THEN Goto(c, "seed_commit", [route |-> "dashboard", page |-> "dashboard.html"])
       ELSE Finish(c, render("dashboard.html", << >>))
    /\ UNCHANGED << people, session, content >>

\* GET /sponsors up to the check of seed_sponsors.
sponsors_page(c) ==
    /\ pc[c] = "idle"
    /\ IF SponsorsEmpty
       THEN Goto(c, "seed_commit", [route |-> "sponsors", page |-> "sponsors.html"])
       ELSE Finish(c, render("sponsors.html", << >>))
    /\ UNCHANGED << people, session, content >>

\* seed_sponsors past its check: add_all and commit; then the page.
seed_sponsors(c) ==
    /\ pc[c] = "seed_commit"
    /\ wlock = 0
    /\ sponsors' = SeededSponsors
    /\ Finish(c, render(req[c].page, << >>))
    /\ UNCHANGED << people, session, submissions, feedbacks, live_updates, notifications >>

NextSponsors ==
    \E c \in Clients :
        \/ post_login(c)
        \/ login(c)
        \/ logout(c)
        \/ dashboard(c)
        \/ sponsors_page(c)
        \/ seed_sponsors(c)

SpecSponsors == InitSponsors /\ [][NextSponsors]_vars

\* C6: the Sponsor table never holds more than the 3 default sponsors when
\* it started empty, and seeding adds nothing when it started with a row, so
\* it never holds more than 3 rows.
C6_AtMostThreeSponsors == Cardinality(sponsors) <= 3

\* ------------------------------------------------------------------- admin
ADMIN_EMAIL == "admin@hackathon.com"

ADMIN_PASSWORD == "admin123"

AdminLoginForms ==
    {[route |-> "admin_login", email |-> ADMIN_EMAIL, password |-> ADMIN_PASSWORD],
     [route |-> "admin_login", email |-> ADMIN_EMAIL, password |-> "admin124"],
     [route |-> "admin_login", email |-> "ada@x.com", password |-> ADMIN_PASSWORD]}

EitherCredentialOk(email, password) == email = ADMIN_EMAIL \/ password = ADMIN_PASSWORD

\* if email == ADMIN_EMAIL and password == ADMIN_PASSWORD
AdminCredentialsOk(email, password) == email = ADMIN_EMAIL /\ password = ADMIN_PASSWORD

\* POST /admin/login arrives.
post_admin_login(c) ==
    /\ \E f \in AdminLoginForms : Receive(c, "admin_login", f)
    /\ UNCHANGED << people, session, content >>

\* session["is_admin"] = True on the configured pair, else the form again
admin_login(c) ==
    /\ pc[c] = "admin_login"
    /\ IF AdminCredentialsOk(req[c].email, req[c].password)
       THEN /\ session' = [session EXCEPT ![c].is_admin = TRUE]
            /\ Finish(c, redirect("admin_dashboard", "Admin login successful!"))
       ELSE /\ session' = session
            /\ Finish(c, [render("admin_login.html", << >>)
                            EXCEPT !.flash = "Invalid admin credentials."])
    /\ UNCHANGED << people, content >>

\* GET /admin/logout, one step: session.pop("is_admin", None)
admin_logout(c) ==
    /\ pc[c] = "idle"
    /\ session' = [session EXCEPT ![c].is_admin = FALSE]
    /\ Finish(c, redirect("admin_login", "Admin logged out."))
    /\ UNCHANGED << people, content >>

\* if not session.get("is_admin"): flash(...); return False
require_admin(c) == session[c].is_admin

admin_required == redirect("admin_login", "Admin access required.")

\* GET /admin/dashboard, one step
admin_dashboard(c) ==
    /\ pc[c] = "idle"
    /\ IF ~require_admin(c)
       THEN Finish(c, admin_required)
       ELSE Finish(c, render("admin_dashboard.html",
                             << order_by_id_desc(live_updates),
                                order_by_id_desc(notifications) >>))
    /\ UNCHANGED << people, session, content >>

\* GET /admin/teams, one step
admin_teams(c) ==
    /\ pc[c] = "idle"
    /\ IF ~require_admin(c)
       THEN Finish(c, admin_required)
       ELSE Finish(c, render("admin_teams.html", order_by_id_asc(teams)))
    /\ UNCHANGED << people, session, content >>

BoardTexts == {"", "Lunch at noon"}

\* The requests in flight that may add a row to a board.
Adding(label) == Cardinality({d \in Clients : pc[d] = label})

\* POST /admin/add_update arrives.
post_admin_add_update(c) ==
    /\ NextId(live_updates) + Adding("admin_add_update") <= MaxUpdates
    /\ \E t \in BoardTexts :
          Receive(c, "admin_add_update", [route |-> "admin_add_update", text |-> t])
    /\ UNCHANGED << people, session, content >>

\* if text: db.session.add(Model(text=text)); db.session.commit()
AddRow(table, text) ==
    IF text # "" THEN table \cup {[id |-> NextId(table), text |-> text]} ELSE table

admin_add_update(c) ==
    /\ pc[c] = "admin_add_update"
    /\ IF ~require_admin(c)
       THEN /\ live_updates' = live_updates
            /\ Finish(c, admin_required)
       ELSE /\ live_updates' = AddRow(live_updates, req[c].text)
            /\ Finish(c, redirect("admin_dashboard", ""))
    /\ UNCHANGED << people, session, submissions, feedbacks, sponsors, notifications >>

\* POST /admin/add_notification arrives.
post_admin_add_notification(c) ==
    /\ NextId(notifications) + Adding("admin_add_notification") <= MaxNotifications
    /\ \E t \in BoardTexts :
          Receive(c, "admin_add_notification",
                  [route |-> "admin_add_notification", text |-> t])
    /\ UNCHANGED << people, session, content >>

admin_add_notification(c) ==
    /\ pc[c] = "admin_add_notification"
    /\ IF ~require_admin(c)
       THEN /\ notifications' = notifications
            /\ Finish(c, admin_required)
       ELSE /\ notifications' = AddRow(notifications, req[c].text)
            /\ Finish(c, redirect("admin_dashboard", ""))
    /\ UNCHANGED << people, session, submissions, feedbacks, sponsors, live_updates >>

\* The ids a delete link may carry: those a board of the model can hold.
UpdateIds == 1..MaxUpdates

NotificationIds == 1..MaxNotifications

DeleteUpTo(table, id) == {r \in table : r.id > id}

\* db.session.delete(item); db.session.commit()
DeleteRow(table, id) == {r \in table : r.id # id}

\* GET /admin/delete_update/<id> arrives.
get_admin_delete_update(c) ==
    /\ \E id \in UpdateIds :
          Receive(c, "admin_delete_update", [route |-> "admin_delete_update", id |-> id])
    /\ UNCHANGED << people, session, content >>

\* item = LiveUpdate.query.get_or_404(id); delete; commit
admin_delete_update(c) ==
    /\ pc[c] = "admin_delete_update"
    /\ IF ~require_admin(c)
       THEN /\ live_updates' = live_updates
            /\ Finish(c, admin_required)
       ELSE IF \A r \in live_updates : r.id # req[c].id
       THEN /\ live_updates' = live_updates
            /\ Finish(c, not_found)
       ELSE /\ live_updates' = DeleteRow(live_updates, req[c].id)
            /\ Finish(c, redirect("admin_dashboard", ""))
    /\ UNCHANGED << people, session, submissions, feedbacks, sponsors, notifications >>

\* GET /admin/delete_notification/<id> arrives.
get_admin_delete_notification(c) ==
    /\ \E id \in NotificationIds :
          Receive(c, "admin_delete_notification",
                  [route |-> "admin_delete_notification", id |-> id])
    /\ UNCHANGED << people, session, content >>

\* item = Notification.query.get_or_404(id); delete; commit
admin_delete_notification(c) ==
    /\ pc[c] = "admin_delete_notification"
    /\ IF ~require_admin(c)
       THEN /\ notifications' = notifications
            /\ Finish(c, admin_required)
       ELSE IF \A r \in notifications : r.id # req[c].id
       THEN /\ notifications' = notifications
            /\ Finish(c, not_found)
       ELSE /\ notifications' = DeleteRow(notifications, req[c].id)
            /\ Finish(c, redirect("admin_dashboard", ""))
    /\ UNCHANGED << people, session, submissions, feedbacks, sponsors, live_updates >>

NextAdmin ==
    \E c \in Clients :
        \/ post_admin_login(c)
        \/ admin_login(c)
        \/ admin_logout(c)
        \/ logout(c)
        \/ admin_dashboard(c)
        \/ admin_teams(c)
        \/ post_admin_add_update(c)
        \/ admin_add_update(c)
        \/ post_admin_add_notification(c)
        \/ admin_add_notification(c)
        \/ get_admin_delete_update(c)
        \/ admin_delete_update(c)
        \/ get_admin_delete_notification(c)
        \/ admin_delete_notification(c)

SpecAdmin == InitPortal /\ [][NextAdmin]_vars

\* ------------------------------------------------------- the whole portal
\* Every request of every route.  The specifications above are its parts:
\* each has the actions of one feature and those that write what the feature
\* reads (the session), over participants who have registered already.
Next ==
    \/ NextRegister
    \/ NextSubmit
    \/ NextFeedback
    \/ NextSponsors
    \/ NextAdmin

Spec == Init /\ [][Next]_vars

\* ------------------------------------------------------------ admin: claims

AdminLabels ==
    {"admin_add_update", "admin_add_notification", "admin_delete_update",
     "admin_delete_notification"}

AdminPages == {"admin_dashboard.html", "admin_teams.html"}

C5_Step ==
    \A c \in Clients :
        /\ (~session[c].is_admin /\ session'[c].is_admin)
             => /\ pc[c] = "admin_login"
                /\ req[c].email = "admin@hackathon.com"
                /\ req[c].password = "admin123"
        /\ (Handles(c, {"admin_login"})
              /\ ~(req[c].email = "admin@hackathon.com" /\ req[c].password = "admin123"))
             => session'[c] = session[c]
        /\ (Handles(c, AdminLabels) /\ ~session[c].is_admin)
             => /\ resp' = [redirect("admin_login", "Admin access required.")
                              EXCEPT !.client = c]
                /\ UNCHANGED << users, teams, submissions, feedbacks, sponsors,
                                live_updates, notifications >>
        /\ (resp'.client = c /\ resp'.location \in AdminPages) => session[c].is_admin

\* C5: the admin flag of a session goes from unset to set only in a POST
\* /admin/login whose email and password are both the configured ones; any other
\* admin login leaves the session as it was; and a session without the flag
\* is sent to the admin login by add_update, add_notification, delete_update and
\* delete_notification, which then change no table, and never gets the admin
\* dashboard or the teams page.
C5_AdminGate == [][C5_Step]_vars

\* One session is the admin's and has posted an update; another, without the
\* flag, has just been sent to the admin login.
C5_Witness ==
    /\ resp.code = 302
    /\ resp.location = "admin_login"
    /\ resp.flash = "Admin access required."
    /\ live_updates # {}
    /\ \E c \in Clients : session[c].is_admin

C8_Step ==
    \A c \in Clients :
        /\ (Handles(c, {"admin_delete_update"}) /\ session[c].is_admin)
             => /\ UNCHANGED << users, teams, submissions, feedbacks, sponsors,
                                notifications >>
                /\ IF \E r \in live_updates : r.id = req[c].id
                   THEN /\ \E r \in live_updates :
                             r.id = req[c].id /\ live_updates' = live_updates \ {r}
                        /\ Cardinality(live_updates') = Cardinality(live_updates) - 1
                        /\ resp'.code = 302
                   ELSE live_updates' = live_updates /\ resp'.code = 404
        /\ (Handles(c, {"admin_delete_notification"}) /\ session[c].is_admin)
             => /\ UNCHANGED << users, teams, submissions, feedbacks, sponsors,
                                live_updates >>
                /\ IF \E r \in notifications : r.id = req[c].id
                   THEN /\ \E r \in notifications :
                             r.id = req[c].id /\ notifications' = notifications \ {r}
                        /\ Cardinality(notifications') = Cardinality(notifications) - 1
                        /\ resp'.code = 302
                   ELSE notifications' = notifications /\ resp'.code = 404

====
